---- MODULE Spec2Model ----
(***************************************************************************)
(* A state-machine model of ssd_detect_rtsp.cpp: main() as a sequential    *)
(* program (one action per step of main and of the functions it calls),    *)
(* Detector (constructor, SetMean, Detect), RTSP_Stream and getAlgConf.    *)
(*                                                                         *)
(* Floats are modelled in fixed point, as integers counting hundredths     *)
(* (Scale): 0.01 is 1, -1 is -100.  The values used below are ones on      *)
(* which float32 multiplication followed by static_cast<int> agrees with   *)
(* the fixed-point computation.  Strings are sequences of one-character    *)
(* strings.                                                                *)
(***************************************************************************)
EXTENDS Integers, Sequences, FiniteSets, TLC

\* ---------------------------------------------------------------- bounds
MaxEntries == 2
MaxFrames == 2
MaxDet == 2
MaxCfgLines == 1

\* ------------------------------------------------------ program constants
Stride == 7
PadWidth == 6
Scale == 10 * 10
Sentinel == -Scale
DefaultThreshold == 1

\* ------------------------------------------------------------ characters
DigitChar == <<"0", "1", "2", "3", "4", "5", "6", "7", "8", "9">>

IsDigit(c) == \E d \in 1..10 : DigitChar[d] = c

DigitVal(c) == (CHOOSE d \in 1..10 : DigitChar[d] = c) - 1

\* std::string::find(ch): the first index (1-based) of ch in s, 0 for npos.
Find(s, ch) ==
  IF \E i \in 1..Len(s) : s[i] = ch
  THEN CHOOSE i \in 1..Len(s) : s[i] = ch /\ \A j \in 1..(i - 1) : s[j] # ch
  ELSE 0

\* file.substr(0, file.find(':')): up to the first ':', the whole string
\* when there is none (npos).
Prefix(s) ==
  IF Find(s, ":") = 0 THEN s ELSE SubSeq(s, 1, Find(s, ":") - 1)

RtspWord == <<"r", "t", "s", "p">>

\* ------------------------------------------------------------- arithmetic
\* Division truncating toward zero, as static_cast<int> of a float does.
TruncDiv(a, b) == IF a >= 0 THEN a \div b ELSE -((-a) \div b)

\* static_cast<int>(x) of the fixed-point value x.
ToInt(x) == TruncDiv(x, Scale)

\* 2^n, for n >= 0.
Pow2(n) == 2 ^ n

\* A float (IEEE binary32) of the output blob's box coordinates, bit for
\* bit: its value is sign * man * 2^-exp, with man below 2^24.
F32(s, m, e) == [sign |-> s, man |-> m, exp |-> e]

\* The product m * w of a mantissa and a small integer, as the two limbs
\* [hi, lo] of hi * 2^12 + lo (it can exceed the range of the integers
\* here).
LimbBits == 12
Limbs(m, w) ==
  LET B == (m % Pow2(LimbBits)) * w
  IN [hi |-> (m \div Pow2(LimbBits)) * w + B \div Pow2(LimbBits),
      lo |-> B % Pow2(LimbBits)]

\* d * extent as the code computes it: extent (an int below 2^24) is
\* converted to float without loss, and the product is rounded to the
\* nearest float, to the even mantissa on a tie.
F32MulInt(d, w) ==
  LET P == Limbs(d.man, w)
      \* the bits of the product beyond the 24 a mantissa holds
      sh == CHOOSE k \in 0..LimbBits :
              /\ P.hi < Pow2(LimbBits + k)
              /\ k > 0 => P.hi >= Pow2(LimbBits + k - 1)
      q == P.hi * Pow2(LimbBits - sh) + P.lo \div Pow2(sh)
      rem == P.lo % Pow2(sh)
      up == /\ sh > 0
            /\ \/ rem > Pow2(sh - 1)
               \/ rem = Pow2(sh - 1) /\ q % 2 = 1
      r == IF up THEN q + 1 ELSE q
  IN IF r = Pow2(24) THEN F32(d.sign, Pow2(23), d.exp - sh - 1)
     ELSE F32(d.sign, r, d.exp - sh)

\* static_cast<int>(f) of a float: the value cut toward zero.
F32ToInt(f) ==
  f.sign * (IF f.exp >= 0 THEN f.man \div Pow2(f.exp)
            ELSE f.man * Pow2(-f.exp))

\* static_cast<int>(d * extent): d a normalized coordinate, extent the
\* cols or rows of the frame.
ScaleCoord(d, extent) == F32ToInt(F32MulInt(d, extent))

\* ------------------------------------------------------------------ Mat
Mat(c, r) == [cols |-> c, rows |-> r]
EmptyMat == Mat(0, 0)
Empty(m) == m.cols = 0 \/ m.rows = 0

FrameSizes == {Mat(100, 200), Mat(15, 7)}

\* ------------------------------------------------------------ inputs
\* Detection records a forward pass can produce:
\* [image_id, label, score, xmin, ymin, xmax, ymax].
\* image_id, label and score are kept as hundredths; the coordinates are
\* floats: 0.1f, 0.2f, 0.5f, 0.6f in RecHigh, and in RecEdge -0.1f, 0.53f
\* (0.52999997...), 0.50999999... (whose product with 100 lies half a
\* float step below 51) and 1.1f.
RecSentinel ==
  <<Sentinel, 100, 90, F32(1, 13421773, 27), F32(1, 13421773, 26),
    F32(1, 8388608, 24), F32(1, 10066330, 24)>>
RecHigh ==
  <<0, 200, 80, F32(1, 13421773, 27), F32(1, 13421773, 26),
    F32(1, 8388608, 24), F32(1, 10066330, 24)>>
RecEdge ==
  <<0, 100, 1, F32(-1, 13421773, 27), F32(1, 8891924, 24),
    F32(1, 8556380, 24), F32(1, 9227469, 23)>>
RecordSet == {RecSentinel, RecHigh, RecEdge}

RECURSIVE Flatten(_)
Flatten(recs) ==
  IF recs = <<>> THEN <<>> ELSE Head(recs) \o Flatten(Tail(recs))

\* The output blobs: num_det records of Stride floats each, flat.
Buffers ==
  {Flatten(recs) : recs \in UNION {[1..n -> RecordSet] : n \in 0..MaxDet}}

Thresholds == {DefaultThreshold, 50}
DefaultFileType == "image"
FileTypes == {DefaultFileType, "video", "other"}

MeanFileNames == {<<>>, <<"m">>}
\* The default of FLAGS_mean_value, "104,117,123".
DefaultMeanValue ==
  <<"1", "0", "4", ",", "1", "1", "7", ",", "1", "2", "3">>
MeanValueStrings == {<<>>, <<"7">>, DefaultMeanValue}

\* What a mean file holds: unreadable, or a blob with its channel means.
MeanBlobs ==
  {[readable |-> FALSE, means |-> <<>>],
   [readable |-> TRUE, means |-> <<500>>],
   [readable |-> TRUE, means |-> <<500, 600, 700>>]}

\* What a plane of mean_ is filled with: a value the code computed, or,
\* after values[i] was read past the end of the vector, whatever the heap
\* held there.  Such a read can yield any float; the model commits to none,
\* and the plane is equal to no value.
Plane(v) == [value |-> v]
Indeterminate == [indeterminate |-> TRUE]

\* The networks model_file and weights_file can describe.
NetKinds ==
  {[loadable |-> FALSE, inputs |-> 0, outputs |-> 0, channels |-> 0,
    width |-> 0, height |-> 0],
   [loadable |-> TRUE, inputs |-> 2, outputs |-> 1, channels |-> 3,
    width |-> 300, height |-> 300],
   [loadable |-> TRUE, inputs |-> 1, outputs |-> 2, channels |-> 3,
    width |-> 300, height |-> 300],
   [loadable |-> TRUE, inputs |-> 1, outputs |-> 1, channels |-> 2,
    width |-> 300, height |-> 300],
   [loadable |-> TRUE, inputs |-> 1, outputs |-> 1, channels |-> 3,
    width |-> 300, height |-> 300],
   [loadable |-> TRUE, inputs |-> 1, outputs |-> 1, channels |-> 1,
    width |-> 100, height |-> 200]}

NoNet == [loadable |-> FALSE, inputs |-> 0, outputs |-> 0, channels |-> 0,
          width |-> 0, height |-> 0]

\* The list file's entries.
RtspUrl == <<"r", "t", "s", "p", ":", "c">>
PlainFile == <<"a">>
Files == {RtspUrl, PlainFile}

Keys == {"q", "none"}

\* Lines a config file can hold: one that getAlgConf prints, and three it
\* does not (an unprinted key, a line without '=', an empty line).
CfgLineSet ==
  {<<"t", "y", "p", "e", " ", "=", " ", "v", "i", "d", "e", "o">>,
   <<"l", "i", "s", "t", "f", "i", "l", "e", "=", "l">>,
   <<"x">>,
   <<>>}

\* The sequences over S of length at most n.
SeqsUpTo(S, n) == UNION {[1..k -> S] : k \in 0..n}

\* The config file of getAlgConf: unopenable, or a number of complete
\* lines and possibly a last line without a newline.
CfgFiles ==
  {[open |-> FALSE, lines |-> <<>>, tail |-> FALSE]} \cup
  {[open |-> TRUE, lines |-> ls, tail |-> t] :
     ls \in SeqsUpTo(CfgLineSet, MaxCfgLines), t \in BOOLEAN}
CfgClosed == [open |-> FALSE, lines |-> <<>>, tail |-> FALSE]

NoCap == [opened |-> FALSE, len |-> 0, pos |-> 0, size |-> EmptyMat]

VARIABLES
  pc,                    \* the position of main
  cfgfile,               \* getAlgConf's std::ifstream
  item,                  \* getAlgConf's line buffer
  argc,                  \* the number of command-line words
  mean_file,             \* FLAGS_mean_file
  mean_value,            \* FLAGS_mean_value
  file_type,             \* FLAGS_file_type
  confidence_threshold,  \* FLAGS_confidence_threshold
  net,                   \* Detector::net_, num_channels_, input_geometry_
  mean_,                 \* Detector::mean_: the fill value of each plane
  oob,                   \* an index outside the vector's bounds was read
  listOpened,            \* infile has been constructed
  entriesRead,           \* how many entries infile >> file has yielded
  file,                  \* main's file
  branch,                \* which branch of main called Detect
  cap,                   \* the cv::VideoCapture of the branch
  img,                   \* the frame of the branch
  result,                \* the network's output blob, as Detect reads it
  detections,            \* the vector Detect returned
  frame_count,           \* the video branch's frame_count
  key,                   \* what cvWaitKey last returned
  out,                   \* the lines written to the ostream out
  console,               \* what cout and LOG wrote
  acquired,              \* frames the sources have delivered
  emitted,               \* records the network has put out
  detectCalls,           \* calls of Detector::Detect
  forwardCalls,          \* calls of net_->Forward()
  abortSite              \* where a fatal error ended the run

vars == <<pc, cfgfile, item, argc, mean_file, mean_value, file_type,
          confidence_threshold, net, mean_, oob, listOpened, entriesRead,
          file, branch, cap, img, result, detections, frame_count, key,
          out, console, acquired, emitted, detectCalls, forwardCalls,
          abortSite>>

ctorVars == <<net, mean_, oob>>
flagVars == <<argc, mean_file, mean_value, file_type, confidence_threshold>>
frameVars == <<cap, img, result, detections, frame_count, key>>
countVars == <<acquired, emitted, detectCalls, forwardCalls>>

\* A message on cout or in the log: its kind, a number and a text it holds.
Msg(m, n) == [msg |-> m, n |-> n, text |-> <<>>]

\* trim: the spaces at the front and at the back of s are erased.
RECURSIVE TrimFront(_)
TrimFront(s) ==
  IF s # <<>> /\ Head(s) = " " THEN TrimFront(Tail(s)) ELSE s

RECURSIVE TrimBack(_)
TrimBack(s) ==
  IF s # <<>> /\ s[Len(s)] = " "
  THEN TrimBack(SubSeq(s, 1, Len(s) - 1)) ELSE s

trim(s) == TrimBack(TrimFront(s))

\* s.substr(pos, count) with pos <= s.size(); a negative count is npos: up
\* to the end of s.
Substr(s, pos, count) ==
  IF count < 0 \/ pos + count > Len(s) THEN SubSeq(s, pos + 1, Len(s))
  ELSE SubSeq(s, pos + 1, pos + count)

\* The keys whose value getAlgConf writes to cout.
PrintedKeys ==
  {<<"t", "h", "r", "e", "s", "h", "o", "l", "d">>,
   <<"t", "y", "p", "e">>,
   <<"m", "o", "d", "e", "l">>,
   <<"d", "a", "t", "a">>}

\* What one pass of the loop body writes to cout for the line item:
\* split_pos is item.find('=') as an int (-1 when there is none), the key is
\* the trimmed text before it and the value the trimmed text after it.
CfgOutput(it) ==
  LET split_pos == Find(it, "=") - 1
      prefix_str == trim(Substr(it, 0, split_pos))
      value == trim(Substr(it, split_pos + 1, -1))
  IN IF prefix_str \in PrintedKeys
     THEN <<[msg |-> "getAlgConf", n |-> 0, text |-> value]>>
     ELSE <<>>

\* After gflags::ParseCommandLineFlags: the flags are set, nothing has run.
\* The flag's help asks for one of mean_file and mean_value; the parser
\* takes both and takes neither.  What getAlgConf reads
\* goes to its own locals only, so not every combination is run: a config
\* file with printed lines is run with the flags at their defaults.
PrintsLines(f) ==
  \E i \in 1..Len(f.lines) : CfgOutput(f.lines[i]) # <<>>

Init ==
  /\ pc = "getAlgConf"
  /\ cfgfile \in CfgFiles
  /\ item = <<>>
  /\ argc \in {3, 4}
  /\ mean_file \in MeanFileNames
  /\ mean_value \in MeanValueStrings
  /\ file_type \in FileTypes
  /\ confidence_threshold \in Thresholds
  /\ PrintsLines(cfgfile)
       => /\ mean_file = <<>>
          /\ mean_value = DefaultMeanValue
          /\ file_type = DefaultFileType
          /\ confidence_threshold = DefaultThreshold
  /\ net = NoNet
  /\ mean_ = <<>>
  /\ oob = FALSE
  /\ listOpened = FALSE
  /\ entriesRead = 0
  /\ file = <<>>
  /\ branch = "none"
  /\ cap = NoCap
  /\ img = EmptyMat
  /\ result = <<>>
  /\ detections = <<>>
  /\ frame_count = 0
  /\ key = "none"
  /\ out = <<>>
  /\ console = <<>>
  /\ acquired = 0
  /\ emitted = 0
  /\ detectCalls = 0
  /\ forwardCalls = 0
  /\ abortSite = "none"

\* A CHECK or LOG(FATAL) that fails: the process aborts.
Abort(site) ==
  /\ pc' = "aborted"
  /\ abortSite' = site

\* ------------------------------------------------------------ getAlgConf
\* One evaluation of `!getline(cfgfile, item).eof()`.  An unopenable file
\* has failbit set: getline extracts nothing and never sets eofbit, so the
\* condition stays true.  A complete line is extracted without eofbit; the
\* end of the file, with or without a last unterminated line, sets eofbit,
\* and the function returns.
GetAlgConf ==
  /\ pc = "getAlgConf"
  /\ IF ~cfgfile.open
     THEN /\ pc' = "getAlgConf_body"
          /\ UNCHANGED <<cfgfile, item>>
     ELSE IF cfgfile.lines # <<>>
     THEN /\ item' = Head(cfgfile.lines)
          /\ cfgfile' = [cfgfile EXCEPT !.lines = Tail(@)]
          /\ pc' = "getAlgConf_body"
     ELSE /\ cfgfile' = CfgClosed
          /\ item' = <<>>
          /\ pc' = "args"
  /\ UNCHANGED <<flagVars, ctorVars, listOpened, entriesRead, file, branch,
                 frameVars, out, console, countVars, abortSite>>

\* The loop body: the item is split at '=' and compared with the known
\* keys; the values of threshold, type, model and data are written to cout
\* and kept in locals nothing reads.  Back to the loop test.
GetAlgConfBody ==
  /\ pc = "getAlgConf_body"
  /\ console' = console \o CfgOutput(item)
  /\ pc' = "getAlgConf"
  /\ UNCHANGED <<cfgfile, item, flagVars, ctorVars, listOpened, entriesRead,
                 file, branch, frameVars, out, countVars, abortSite>>

\* ------------------------------------------------------------------ main
CheckArgs ==
  /\ pc = "args"
  /\ pc' = IF argc < 4 THEN "exit1" ELSE "ctor"
  /\ UNCHANGED <<cfgfile, item, flagVars, ctorVars, listOpened, entriesRead, file,
                 branch, frameVars, out, console, countVars, abortSite>>

\* -------------------------------------------------------------- Detector
\* The constructor up to the call of SetMean.
LoadNet ==
  /\ pc = "ctor"
  /\ \E n \in NetKinds :
       IF ~n.loadable THEN Abort("Net") /\ UNCHANGED net
       ELSE IF n.inputs # 1 THEN Abort("num_inputs") /\ UNCHANGED net
       ELSE IF n.outputs # 1 THEN Abort("num_outputs") /\ UNCHANGED net
       ELSE IF ~(n.channels = 3 \/ n.channels = 1)
       THEN Abort("num_channels") /\ UNCHANGED net
       ELSE /\ net' = n
            /\ pc' = "SetMean"
            /\ UNCHANGED abortSite
  /\ UNCHANGED <<cfgfile, item, flagVars, mean_, oob, listOpened, entriesRead,
                 file, branch, frameVars, out, console, countVars>>

\* std::atof of a string of digits (0.0 for the empty string), as a
\* fixed-point value.
RECURSIVE DecValue(_)
DecValue(s) ==
  IF s = <<>> \/ ~IsDigit(s[Len(s)]) THEN 0
  ELSE DecValue(SubSeq(s, 1, Len(s) - 1)) * 10 + DigitVal(s[Len(s)])

Atof(str) == DecValue(str) * Scale

\* while (getline(ss, item, ',')) values.push_back(atof(item)): getline
\* takes the characters up to the next ',' (and drops it); it fails, and the
\* loop ends, once nothing is left to extract.
RECURSIVE ParseMeanValues(_)
ParseMeanValues(s) ==
  IF s = <<>> THEN <<>>
  ELSE IF Find(s, ",") = 0 THEN <<Atof(s)>>
  ELSE <<Atof(SubSeq(s, 1, Find(s, ",") - 1))>>
         \o ParseMeanValues(SubSeq(s, Find(s, ",") + 1, Len(s)))

\* A mutant of CheckOtherEmpty: the CHECK is missing.
CheckOtherEmptySkipped(s) == TRUE

\* The condition of CHECK(mean_value.empty()) and CHECK(mean_file.empty()).
CheckOtherEmpty(s) == s = <<>>

\* values[i] of SetMean's loop (i from 0): the i-th value, or whatever lies
\* behind the vector's storage when i is past its end.
ValueAt(values, i) ==
  IF i < Len(values) THEN Plane(values[i + 1]) ELSE Indeterminate

\* Detector::SetMean as a function of its inputs, of the mean file's content
\* and of what out-of-bounds reads yield: where it aborts ("none": it
\* returns), the mean_ it leaves and whether it read out of bounds.
SetMeanResult(mf, mv, channels, blob) ==
  LET fromFile == mf # <<>>
      values == ParseMeanValues(mv)
      planes == [i \in 1..channels |-> ValueAt(values, i - 1)]
      bad(site) == [abort |-> site, mean |-> <<>>, oob |-> FALSE]
  IN
  IF fromFile /\ ~CheckOtherEmpty(mv) THEN bad("SetMean:both")
  ELSE IF fromFile /\ ~blob.readable THEN bad("SetMean:ReadProto")
  ELSE IF fromFile /\ Len(blob.means) # channels
  THEN bad("SetMean:mean channels")
  ELSE IF mv = <<>>
  THEN [abort |-> "none",
        mean |-> IF fromFile
                 THEN [i \in 1..channels |-> Plane(blob.means[i])]
                 ELSE <<>>,
        oob |-> FALSE]
  ELSE IF ~CheckOtherEmpty(mf) THEN bad("SetMean:both")
  ELSE IF ~(Len(values) = 1 \/ Len(values) = channels)
  THEN bad("SetMean:values")
  ELSE [abort |-> "none", mean |-> planes, oob |-> Len(values) < channels]

SetMean ==
  /\ pc = "SetMean"
  /\ \E blob \in MeanBlobs, trapped \in BOOLEAN :
       LET r == SetMeanResult(mean_file, mean_value, net.channels, blob)
       IN
       IF r.abort # "none"
       THEN Abort(r.abort) /\ UNCHANGED <<mean_, oob>>
       ELSE IF r.oob /\ trapped
       THEN /\ Abort("SetMean:values[i]")
            /\ oob' = TRUE
            /\ UNCHANGED mean_
       ELSE /\ mean_' = r.mean
            /\ oob' = r.oob
            /\ pc' = "open"
            /\ UNCHANGED abortSite
  /\ UNCHANGED <<cfgfile, item, flagVars, net, listOpened, entriesRead, file,
                 branch, frameVars, out, console, countVars>>

\* -------------------------------------------------------- main, the list
\* The output stream is set up and the list file is opened.
OpenList ==
  /\ pc = "open"
  /\ listOpened' = TRUE
  /\ pc' = "next_entry"
  /\ UNCHANGED <<cfgfile, item, flagVars, ctorVars, entriesRead, file, branch,
                 frameVars, out, console, countVars, abortSite>>

DebugLine(k, name) ==
  [kind |-> k, name |-> name, label |-> 0, score |-> 0, box |-> <<>>]

\* Which branch of main an entry takes.
Dispatch(f, type) ==
  IF Prefix(f) = RtspWord THEN "rtsp"
  ELSE IF type = "image" THEN "image"
  ELSE IF type = "video" THEN "video"
  ELSE "unknown"

\* while (infile >> file): the next entry is read and dispatched, or the
\* list has ended and main returns 0.
ReadEntry ==
  /\ pc = "next_entry"
  /\ \/ /\ pc' = "exit0"
        /\ UNCHANGED <<entriesRead, file, branch, cap, img, detections,
                       frame_count, key, out, console, abortSite>>
     \/ /\ entriesRead < MaxEntries
        /\ \E f \in Files :
             LET b == Dispatch(f, file_type) IN
             /\ file' = f
             /\ branch' = b
             /\ out' = out \o <<DebugLine("debug_file", f),
                                DebugLine("debug_type", <<>>)>>
             /\ IF b = "unknown"
                THEN /\ Abort("Unknown file_type")
                     /\ console' = Append(console, Msg("Head", 0))
                ELSE /\ pc' = CASE b = "rtsp" -> "rtsp_init"
                                [] b = "image" -> "image_read"
                                [] b = "video" -> "video_open"
                     /\ console' =
                          IF b = "rtsp"
                          THEN console \o <<Msg("Head", 0), Msg("opening", 0)>>
                          ELSE Append(console, Msg("Head", 0))
                     /\ UNCHANGED abortSite
        /\ entriesRead' = entriesRead + 1
        /\ key' = "none"
        /\ UNCHANGED <<cap, img, detections, frame_count>>
  /\ UNCHANGED <<cfgfile, item, flagVars, ctorVars, listOpened, result, countVars>>

\* ------------------------------------------------------ Detector::Detect
\* Preprocess hands an empty image to OpenCV (cv::cvtColor for a 3-channel
\* network, cv::resize otherwise), which throws cv::Exception on an empty
\* source; and it subtracts mean_, which SetMean left empty when neither
\* mean flag was set: cv::subtract throws on it.  Nothing catches either:
\* Detect does not return.
PreprocessThrows(m, mean) == Empty(m) \/ mean = <<>>

\* result_blob->height()
NumDet(buf) == Len(buf) \div Stride

\* Detect up to the end of net_->Forward(): the frame is preprocessed and
\* the network leaves its output blob.
DetectForward ==
  /\ pc = "detect"
  /\ detectCalls' = detectCalls + 1
  /\ IF PreprocessThrows(img, mean_)
     THEN /\ Abort("cv::Exception")
          /\ UNCHANGED <<result, forwardCalls, emitted>>
     ELSE /\ \E buf \in Buffers :
               /\ emitted + NumDet(buf) <= MaxDet
               /\ result' = buf
               /\ emitted' = emitted + NumDet(buf)
          /\ forwardCalls' = forwardCalls + 1
          /\ pc' = "detect_copy"
          /\ UNCHANGED abortSite
  /\ UNCHANGED <<cfgfile, item, flagVars, ctorVars, listOpened, entriesRead, file,
                 branch, cap, img, detections, frame_count, key, out,
                 console, acquired>>

\* A mutant of SkipAdvance: the skipped record does not move the pointer.
SkipAdvanceForgotten(off) == off

\* result += 7 of a skipped record.
SkipAdvance(off) == off + Stride

\* The loop of Detect from its k-th round on: off is how far result has
\* moved, acc the detections pushed so far.
RECURSIVE DetectLoop(_, _, _, _, _)
DetectLoop(buf, off, k, num_det, acc) ==
  IF k >= num_det THEN acc
  ELSE IF buf[off + 1] = Sentinel
  THEN DetectLoop(buf, SkipAdvance(off), k + 1, num_det, acc)
  ELSE DetectLoop(buf, off + Stride, k + 1, num_det,
                  Append(acc, SubSeq(buf, off + 1, off + Stride)))

\* The rest of Detect: the output blob is copied into the vector returned.
DetectCopy ==
  /\ pc = "detect_copy"
  /\ detections' = DetectLoop(result, 0, 0, NumDet(result), <<>>)
  /\ pc' = "print"
  /\ UNCHANGED <<cfgfile, item, flagVars, ctorVars, listOpened, entriesRead, file,
                 branch, cap, img, result, frame_count, key, out, console,
                 countVars, abortSite>>

\* ------------------------------------------------------------- printing
\* A mutant of ScoreOk: the comparison is strict.
ScoreOkStrict(score, threshold) == score > threshold

\* score >= confidence_threshold
ScoreOk(score, threshold) == score >= threshold

\* A mutant of ReportExtent: the box is scaled by the network's input size.
ReportExtentOfNet(m, n) == Mat(n.width, n.height)

\* The Mat whose cols and rows scale the box of a line: the frame's, m, of
\* the frame and the loaded network n.
ReportExtent(m, n) == m

\* The line of detection d, named name.
Line(name, d, m) ==
  [kind |-> "det", name |-> name, label |-> ToInt(d[2]), score |-> d[3],
   box |-> <<ScaleCoord(d[4], m.cols), ScaleCoord(d[5], m.rows),
             ScaleCoord(d[6], m.cols), ScaleCoord(d[7], m.rows)>>]

\* for (i = 0; i < detections.size(); ++i) if (score >= threshold) out << ...
\* from its i-th round on (i from 1 here).
RECURSIVE PrintLoop(_, _, _, _, _)
PrintLoop(dets, i, name, m, threshold) ==
  IF i > Len(dets) THEN <<>>
  ELSE IF ScoreOk(dets[i][3], threshold)
  THEN <<Line(name, dets[i], m)>> \o PrintLoop(dets, i + 1, name, m, threshold)
  ELSE PrintLoop(dets, i + 1, name, m, threshold)

\* ----------------------------------------------------- the image branch
\* A mutant of CheckDecoded: the CHECK is missing.
CheckDecodedSkipped(m) == TRUE

\* The condition of CHECK(!img.empty()).
CheckDecoded(m) == ~Empty(m)

ImageRead ==
  /\ pc = "image_read"
  /\ \E m \in FrameSizes \cup {EmptyMat} :
       /\ ~Empty(m) => acquired < MaxFrames
       /\ img' = m
       /\ acquired' = IF Empty(m) THEN acquired ELSE acquired + 1
       /\ IF CheckDecoded(m)
          THEN pc' = "detect" /\ UNCHANGED abortSite
          ELSE Abort("Unable to decode image")
  /\ UNCHANGED <<cfgfile, item, flagVars, ctorVars, listOpened, entriesRead, file,
                 branch, cap, result, detections, frame_count, key, out,
                 console, emitted, detectCalls, forwardCalls>>

ImagePrint ==
  /\ pc = "print"
  /\ branch = "image"
  /\ out' = out \o PrintLoop(detections, 1, file, ReportExtent(img, net),
                             confidence_threshold)
  /\ img' = EmptyMat
  /\ detections' = <<>>
  /\ pc' = "next_entry"
  /\ UNCHANGED <<cfgfile, item, flagVars, ctorVars, listOpened, entriesRead, file,
                 branch, cap, result, frame_count, key, console, countVars,
                 abortSite>>

\* ----------------------------------------------------- the video branch
\* The decimal digits of n >= 0.
RECURSIVE Digits(_)
Digits(n) ==
  IF n < 10 THEN <<DigitChar[n + 1]>>
  ELSE Append(Digits(n \div 10), DigitChar[(n % 10) + 1])

\* What setfill('0') << setw(w) << n writes.
RECURSIVE Pad(_, _)
Pad(s, w) == IF Len(s) >= w THEN s ELSE Pad(<<"0">> \o s, w)

\* file << "_" << setfill('0') << setw(6) << frame_count
FrameName(f, n) == f \o <<"_">> \o Pad(Digits(n), PadWidth)

VideoOpen ==
  /\ pc = "video_open"
  /\ \E ok \in BOOLEAN, n \in 0..(MaxFrames - acquired), sz \in FrameSizes :
       IF ok
       THEN /\ cap' = [opened |-> TRUE, len |-> n, pos |-> 0, size |-> sz]
            /\ frame_count' = 0
            /\ pc' = "video_read"
            /\ UNCHANGED abortSite
       ELSE /\ Abort("Failed to open video")
            /\ UNCHANGED <<cap, frame_count>>
  /\ UNCHANGED <<cfgfile, item, flagVars, ctorVars, listOpened, entriesRead, file,
                 branch, img, result, detections, key, out, console,
                 countVars>>

\* A mutant of EndOfStreamPc: a read that fails is a fatal error.
EndOfStreamFatal == "aborted"

\* Where main goes when cap.read fails: break, out of the loop.
EndOfStreamPc == "video_release"

\* cap.read(img): it returns whether a frame was decoded, and img is then
\* not empty; a read that fails leaves img empty.
VideoRead ==
  /\ pc = "video_read"
  /\ IF cap.pos < cap.len
     THEN /\ img' = cap.size
          /\ cap' = [cap EXCEPT !.pos = @ + 1]
          /\ acquired' = acquired + 1
          /\ IF CheckDecoded(cap.size)
             THEN pc' = "detect" /\ UNCHANGED abortSite
             ELSE Abort("Error when read frame")
          /\ UNCHANGED console
     ELSE /\ console' = Append(console, Msg("Process frames", frame_count))
          /\ pc' = EndOfStreamPc
          /\ img' = EmptyMat
          /\ UNCHANGED <<cap, acquired, abortSite>>
  /\ UNCHANGED <<cfgfile, item, flagVars, ctorVars, listOpened, entriesRead, file,
                 branch, result, detections, frame_count, key, out,
                 emitted, detectCalls, forwardCalls>>

\* A mutant of NextFrameCount: only a frame that printed a line is counted.
NextFrameCountIfPrinted(n, printed) == IF printed > 0 THEN n + 1 ELSE n

\* ++frame_count, of a frame that printed `printed` lines.
NextFrameCount(n, printed) == n + 1

VideoPrint ==
  /\ pc = "print"
  /\ branch = "video"
  /\ LET lines == PrintLoop(detections, 1, FrameName(file, frame_count),
                            ReportExtent(img, net), confidence_threshold)
     IN /\ out' = out \o lines
        /\ frame_count' = NextFrameCount(frame_count, Len(lines))
  /\ detections' = <<>>
  /\ pc' = "video_read"
  /\ UNCHANGED <<cfgfile, item, flagVars, ctorVars, listOpened, entriesRead, file,
                 branch, cap, img, result, key, console, countVars,
                 abortSite>>

\* if (cap.isOpened()) cap.release(); and the end of the branch, where cap,
\* img and frame_count go out of scope.
VideoRelease ==
  /\ pc = "video_release"
  /\ cap' = NoCap
  /\ img' = EmptyMat
  /\ frame_count' = 0
  /\ pc' = "next_entry"
  /\ UNCHANGED <<cfgfile, item, flagVars, ctorVars, listOpened, entriesRead, file,
                 branch, result, detections, key, out, console, countVars,
                 abortSite>>

\* ------------------------------------------------------ the rtsp branch
\* What RTSP_Stream::GetConfig writes to cout: the three items it reads
\* and the url it builds from them.
GetConfigLines ==
  <<Msg("GetConfig item", 1), Msg("GetConfig item", 2),
    Msg("GetConfig item", 3), Msg("GetConfig rtsp_url", 0)>>

\* rtsp_stream.Init() and Open(): GetConfig builds the url from its own
\* config file, and a stream that cannot be opened is only reported.
RtspOpen ==
  /\ pc = "rtsp_init"
  /\ \E ok \in BOOLEAN, sz \in FrameSizes :
       /\ cap' = [opened |-> ok, len |-> 0, pos |-> 0,
                  size |-> IF ok THEN sz ELSE EmptyMat]
       /\ console' = console \o GetConfigLines \o
                       (IF ok THEN <<>>
                        ELSE <<Msg("Can't open the stream", 0)>>)
  /\ pc' = "rtsp_pull"
  /\ UNCHANGED <<cfgfile, item, flagVars, ctorVars, listOpened, entriesRead, file,
                 branch, img, result, detections, frame_count, key, out,
                 countVars, abortSite>>

\* RTSP_Stream::GetFrame: cap >> img; an empty frame is reported.
RtspGetFrame ==
  /\ pc = "rtsp_pull"
  /\ \E got \in BOOLEAN :
       /\ got => cap.opened /\ acquired < MaxFrames
       /\ img' = IF got THEN cap.size ELSE EmptyMat
       /\ acquired' = IF got THEN acquired + 1 ELSE acquired
       /\ cap' = IF got THEN [cap EXCEPT !.pos = @ + 1] ELSE cap
       /\ console' = IF got THEN console
                     ELSE Append(console, Msg("Can't get frame", 0))
  /\ pc' = "detect"
  /\ UNCHANGED <<cfgfile, item, flagVars, ctorVars, listOpened, entriesRead, file,
                 branch, result, detections, frame_count, key, out,
                 emitted, detectCalls, forwardCalls, abortSite>>

RtspPrint ==
  /\ pc = "print"
  /\ branch = "rtsp"
  /\ out' = out \o PrintLoop(detections, 1, file, ReportExtent(img, net),
                             confidence_threshold)
  /\ detections' = <<>>
  /\ pc' = "rtsp_key"
  /\ UNCHANGED <<cfgfile, item, flagVars, ctorVars, listOpened, entriesRead, file,
                 branch, cap, img, result, frame_count, key, console,
                 countVars, abortSite>>

\* A mutant of QuitKey: every key leaves the loop.
QuitKeyAny(k) == TRUE

\* cvWaitKey(10) == 'q'
QuitKey(k) == k = "q"

\* imshow and if (cvWaitKey(10) == 'q') break; after the break the stream
\* and the frame go out of scope.
RtspWaitKey ==
  /\ pc = "rtsp_key"
  /\ \E k \in Keys :
       /\ key' = k
       /\ IF QuitKey(k)
          THEN pc' = "next_entry" /\ cap' = NoCap /\ img' = EmptyMat
          ELSE pc' = "rtsp_pull" /\ UNCHANGED <<cap, img>>
  /\ UNCHANGED <<cfgfile, item, flagVars, ctorVars, listOpened, entriesRead, file,
                 branch, result, detections, frame_count, out, console,
                 countVars, abortSite>>

\* ----------------------------------------------------------------- spec
Next ==
  \/ GetAlgConf
  \/ GetAlgConfBody
  \/ CheckArgs
  \/ LoadNet
  \/ SetMean
  \/ OpenList
  \/ ReadEntry
  \/ DetectForward
  \/ DetectCopy
  \/ ImageRead
  \/ ImagePrint
  \/ VideoOpen
  \/ VideoRead
  \/ VideoPrint
  \/ VideoRelease
  \/ RtspOpen
  \/ RtspGetFrame
  \/ RtspPrint
  \/ RtspWaitKey

Spec == Init /\ [][Next]_vars

\* main runs on: a step that can be taken is taken.
FairSpec == Spec /\ WF_vars(Next)

\* --------------------------------------------------------------- claims
\* The lines a step appends to out.
NewLines == SubSeq(out', Len(out) + 1, Len(out'))

\* The k-th record (k from 1) of the flat buffer buf.
RecordOf(buf, k) == [i \in 1..Stride |-> buf[Stride * (k - 1) + i]]

\* How many members of the set S of numbers are at most i.
RankIn(S, i) == Cardinality({j \in S : j <= i})

\* The detections whose score reaches the threshold.
Passing == {i \in 1..Len(detections) : detections[i][3] >= confidence_threshold}

\* C1: Detect returns exactly the records of the output blob whose image_id
\* is not -1, in the blob's order, each as the 7 values of its own stride;
\* a record with image_id -1 is not returned and does not shift the records
\* after it.
C1_DetectReturnsNonSentinelRecords ==
  pc = "print" =>
    LET keep == {k \in 1..(Len(result) \div 7) : result[7 * (k - 1) + 1] # -Scale}
    IN /\ Len(detections) = Cardinality(keep)
       /\ \A k \in keep : detections[RankIn(keep, k)] = RecordOf(result, k)

\* Detect has returned from a blob whose first record is a sentinel and whose
\* second is not.
C1_Witness ==
  /\ pc = "print"
  /\ Len(result) = 2 * Stride
  /\ result[1] = Sentinel
  /\ result[Stride + 1] # Sentinel
  /\ Len(detections) = 1

\* C2: in every branch (image, video, rtsp) a detection is printed if and
\* only if its score >= confidence_threshold, and the lines of one frame are
\* in the order of the detections.
C2_LinePrintedIffScoreReachesThreshold ==
  [][pc = "print" =>
       /\ Len(NewLines) = Cardinality(Passing)
       /\ \A i \in Passing :
            /\ NewLines[RankIn(Passing, i)].kind = "det"
            /\ NewLines[RankIn(Passing, i)].score = detections[i][3]
            /\ NewLines[RankIn(Passing, i)].label * Scale = detections[i][2]]_vars

\* A frame has printed the record whose score equals the default threshold
\* and, after it, the record above it.
C2_Witness ==
  /\ confidence_threshold = DefaultThreshold
  /\ Len(out) >= 2
  /\ out[Len(out) - 1].kind = "det"
  /\ out[Len(out) - 1].score = confidence_threshold
  /\ out[Len(out)].kind = "det"
  /\ out[Len(out)].score > confidence_threshold
  /\ out[Len(out)].name = out[Len(out) - 1].name

\* The video loop's positions.
InVideoLoop ==
  branch = "video" /\ pc \in {"video_read", "detect", "detect_copy", "print"}

\* C3: for a video the frame index starts at 0 and grows by exactly 1 per
\* frame read, whether or not the frame printed a line; every line of the
\* k-th frame read (k from 0) is named <file>_<k> with k as 6 zero-padded
\* digits; the indices never decrease and stay below the number of frames.
C3_VideoFrameIndex ==
  /\ [](InVideoLoop =>
          /\ frame_count = IF pc = "video_read" THEN cap.pos ELSE cap.pos - 1
          /\ frame_count <= cap.len)
  /\ [][/\ (pc = "video_open" /\ pc' = "video_read") => frame_count' = 0
        /\ (InVideoLoop /\ InVideoLoop') => frame_count' >= frame_count
        /\ (pc = "print" /\ branch = "video") =>
             \A i \in 1..Len(NewLines) :
               LET name == NewLines[i].name
                   digits == SubSeq(name, Len(file) + 2, Len(name))
               IN /\ SubSeq(name, 1, Len(file) + 1) = file \o <<"_">>
                  /\ Len(digits) = 6
                  /\ \A j \in 1..6 : IsDigit(digits[j])
                  /\ DecValue(digits) = cap.pos - 1
                  /\ cap.pos - 1 < cap.len]_vars

\* The second frame of a video has printed a line, named 000001, and the
\* first frame printed none.
C3_Witness ==
  /\ \E i \in 1..Len(out) :
       out[i].name = PlainFile \o <<"_", "0", "0", "0", "0", "0", "1">>
  /\ \A i \in 1..Len(out) :
       out[i].name # PlainFile \o <<"_", "0", "0", "0", "0", "0", "0">>

\* C4: an image entry that cannot be decoded aborts the run before Detect
\* and the forward pass are called for it; no line is written for it, and
\* nothing runs after the abort.
C4_UndecodableImageAborts ==
  [][/\ (pc = "image_read" /\ Empty(img')) =>
          /\ pc' = "aborted"
          /\ detectCalls' = detectCalls
          /\ forwardCalls' = forwardCalls
          /\ out' = out
          /\ entriesRead' = entriesRead
     /\ pc = "aborted" => pc' = "aborted" /\ out' = out]_vars

\* The run was aborted by an undecodable image while the list could have
\* held more entries.
C4_Witness ==
  /\ pc = "aborted"
  /\ abortSite = "Unable to decode image"
  /\ entriesRead = 1
  /\ Empty(img)

BothMeans == mean_file # <<>> /\ mean_value # <<>>

\* C5: with both a mean file and a mean value configured, the construction
\* of the Detector aborts in SetMean (when the network loads), and in no
\* case is the list file opened or a frame acquired, preprocessed or passed
\* to the network.
C5_BothMeansRejected ==
  BothMeans =>
    /\ pc \in {"getAlgConf", "getAlgConf_body", "args", "exit1", "ctor", "SetMean",
              "aborted"}
    /\ ~listOpened
    /\ acquired = 0 /\ detectCalls = 0 /\ forwardCalls = 0
    /\ out = <<>>
    /\ (pc = "aborted" /\ net # NoNet) => abortSite = "SetMean:both"
    /\ (pc = "aborted" /\ net = NoNet) =>
         abortSite \in {"Net", "num_inputs", "num_outputs", "num_channels"}

\* SetMean has rejected the two means.
C5_Witness ==
  BothMeans /\ pc = "aborted" /\ abortSite = "SetMean:both" /\ net.channels = 3

\* C6, as claimed: after SetMean with a mean_value list, one value fills the
\* plane of every channel, channel_count values fill the plane of their own
\* channel, and no index read from the list is out of its bounds.
C6_MeanValuePlanes ==
  (mean_file = <<>> /\ mean_value # <<>> /\ pc \in {"open", "next_entry"}) =>
    LET values == ParseMeanValues(mean_value) IN
    /\ ~oob
    /\ Len(mean_) = net.channels
    /\ Len(values) = 1 =>
         \A i \in 1..net.channels : mean_[i] = Plane(values[1])
    /\ Len(values) = net.channels =>
         \A i \in 1..net.channels : mean_[i] = Plane(values[i])

\* C7, as claimed: an empty frame of the rtsp stream does not abort the run
\* (of a Detector that has its mean).
C7_EmptyRtspFrameDoesNotAbort ==
  ~(pc = "aborted" /\ branch = "rtsp" /\ Empty(img) /\ mean_ # <<>>)

\* The rtsp loop's positions.
InRtspLoop ==
  branch = "rtsp" /\
  pc \in {"rtsp_pull", "detect", "detect_copy", "print", "rtsp_key"}

\* C8, as claimed: no state in which the rtsp loop has ended normally and
\* the driver goes on to the next entry or returns 0.
C8_RtspLoopNeverExits ==
  ~(branch = "rtsp" /\ pc \in {"next_entry", "exit0"})

\* C8, amended: the rtsp loop is left only by a fatal error or when
\* cvWaitKey returns 'q' after a frame was processed; the driver then goes
\* on to the next entry.
C8_RtspLoopExitsOnlyOnQuitKey ==
  [][(InRtspLoop /\ ~InRtspLoop') =>
       \/ pc' = "aborted"
       \/ pc = "rtsp_key" /\ key' = "q" /\ pc' = "next_entry"]_vars

\* The rtsp loop was left on the key 'q'.
C8_Witness ==
  branch = "rtsp" /\ pc = "next_entry" /\ key = "q" /\ forwardCalls >= 1

\* What a run of the video loop keeps to, step by step: a failed read goes
\* to the end of the loop, a read that succeeds goes to Detect, the count
\* logged is the number of frames, and the capture is released.
VideoLoopSteps ==
  /\ [](branch = "video" /\ pc = "video_release" =>
          /\ cap.pos = cap.len
          /\ frame_count = cap.len
          /\ detectCalls = acquired /\ forwardCalls = acquired
          /\ console[Len(console)] = Msg("Process frames", cap.len))
  /\ [][/\ (branch = "video" /\ pc = "video_read" /\ cap'.pos = cap.pos) =>
             pc' = "video_release"
        /\ (branch = "video" /\ pc = "video_read" /\ cap'.pos # cap.pos) =>
             pc' = "detect" /\ acquired' = acquired + 1
        /\ pc = "detect" => detectCalls' = detectCalls + 1
        /\ pc = "video_release" => pc' = "next_entry" /\ ~cap'.opened]_vars

\* C9, as claimed: the loop of an opened video ends: the first read that
\* fails is taken as the end of the stream, not as an error; the count
\* logged then is the number of frames of the video, each of which was
\* passed to Detect; the capture is released and the driver goes on to the
\* next entry.
C9_VideoLoopEnds ==
  /\ (branch = "video" /\ pc = "video_read") ~> (pc = "next_entry")
  /\ VideoLoopSteps

\* The loop of an opened video ends as above whenever the Detector has its
\* mean, that is unless both mean flags were given empty.
C9_VideoLoopEndsWithMean ==
  /\ (branch = "video" /\ pc = "video_read" /\ mean_ # <<>>)
       ~> (pc = "next_entry")
  /\ VideoLoopSteps

\* A video of two frames has ended and the driver is at the next entry.
C9_EndedVideo ==
  /\ branch = "video"
  /\ pc = "next_entry"
  /\ console[Len(console)] = Msg("Process frames", 2)
  /\ ~cap.opened

\* The first Detect of a video aborted the run on the empty mean: the frame
\* was read, nothing was logged or released.
C9_AbortedInFirstDetect ==
  /\ branch = "video"
  /\ pc = "aborted" /\ abortSite = "cv::Exception"
  /\ mean_ = <<>> /\ ~Empty(img)
  /\ acquired = 1 /\ forwardCalls = 0
  /\ cap.opened

\* floor(log2(k)) for k >= 1, and -1 for k = 0.
RECURSIVE Log2(_)
Log2(k) == IF k = 0 THEN -1 ELSE IF k = 1 THEN 0 ELSE 1 + Log2(k \div 2)

\* The exact product |d| * w of a coordinate (of magnitude below 2^12) and
\* an extent: its integer part k and the rest r, in units of 2^-d.exp.
ExactParts(d, w) ==
  LET P == Limbs(d.man, w)
      low == Pow2(d.exp - LimbBits)
  IN [k |-> P.hi \div low, r |-> (P.hi % low) * Pow2(LimbBits) + P.lo]

\* b is the exact product d * w cut to an integer toward zero.
IsTruncation(b, d, w) == b = d.sign * ExactParts(d, w).k

\* b is the float product d * w cut to an integer toward zero: the exact
\* product cut toward zero, or the next integer away from zero when the
\* exact product lies within half a step of the floats below that integer
\* (2^(j-24) for an integer part in [2^j, 2^(j+1)), 2^-25 below 1).
IsTruncationOfFloat(b, d, w) ==
  LET e == ExactParts(d, w)
      h == d.exp - 24 + Log2(e.k)
      near == h >= 0 /\ Pow2(d.exp) - e.r <= Pow2(h)
  IN b = d.sign * (IF near THEN e.k + 1 ELSE e.k)

\* C10, as claimed: every box coordinate printed is the normalized
\* coordinate times the width (xmin, xmax) or height (ymin, ymax) of the
\* acquired frame, not of the network's input, cut to an integer.
C10_BoxScaledByFrameSize ==
  [][pc = "print" =>
       \A i \in Passing :
         LET box == NewLines[RankIn(Passing, i)].box
             d == detections[i]
         IN /\ Len(box) = 4
            /\ IsTruncation(box[1], d[4], img.cols)
            /\ IsTruncation(box[2], d[5], img.rows)
            /\ IsTruncation(box[3], d[6], img.cols)
            /\ IsTruncation(box[4], d[7], img.rows)]_vars

\* C10, amended: every box coordinate printed is the normalized coordinate
\* times the width (xmin, xmax) or height (ymin, ymax) of the acquired
\* frame, not of the network's input, the product taken in float (rounded
\* to the nearest float) and then cut to an integer toward zero.
C10_BoxIsFloatProductByFrameSize ==
  [][pc = "print" =>
       \A i \in Passing :
         LET box == NewLines[RankIn(Passing, i)].box
             d == detections[i]
         IN /\ Len(box) = 4
            /\ IsTruncationOfFloat(box[1], d[4], img.cols)
            /\ IsTruncationOfFloat(box[2], d[5], img.rows)
            /\ IsTruncationOfFloat(box[3], d[6], img.cols)
            /\ IsTruncationOfFloat(box[4], d[7], img.rows)]_vars

\* The box (0.1, 0.2, 0.5, 0.6) of a 100x200 frame was printed as
\* (10, 40, 50, 120) by a network whose input is 300x300, and the box
\* (-0.1, 0.53, 0.50999999, 1.1) of such a frame as (-10, 105, 51, 220):
\* 0.50999999 * 100 is rounded to the float 51.
C10_Witness ==
  /\ net.width = 300 /\ net.height = 300
  /\ \E i \in 1..Len(out) :
       out[i].kind = "det" /\ out[i].box = <<10, 40, 50, 120>>
  /\ \E i \in 1..Len(out) :
       out[i].kind = "det" /\ out[i].box = <<-10, 105, 51, 220>>

\* main is inside getAlgConf.
InGetAlgConf == pc \in {"getAlgConf", "getAlgConf_body"}

\* C11, as claimed: getAlgConf terminates for every state of the config
\* file, the unopenable one included, so main always reaches the check of
\* the positional arguments.
C11_GetAlgConfTerminates == <>(pc = "args")

\* getAlgConf returns whenever the config file could be opened: empty,
\* ending with a newline, or ending without one.
C11_OpenableConfigTerminates == cfgfile.open => <>(pc = "args")

\* With a config file that cannot be opened main never leaves getAlgConf.
C11_UnopenableConfigSpins == ~cfgfile.open => [](InGetAlgConf)
====
